---- MODULE Spec2Model ----
(***************************************************************************)
(* State-machine model of the MCP App HTML proxy: the sandbox session of   *)
(* pages/[id]/index.tsx (readiness handshake, message relay, cache         *)
(* priming), the client cache helpers of src/utils/cache and the           *)
(* persistent cache endpoint pages/api/cache/[key].ts.                     *)
(*                                                                         *)
(* Strings are sequences of one-character strings, so that encoding,       *)
(* substring search and URL parsing are computed as the code computes      *)
(* them.  NULL stands for null / undefined.                                *)
(***************************************************************************)
EXTENDS Integers, Sequences, FiniteSets, TLC

\* null / undefined: a one-element sequence no string of characters equals
NULL == <<"<null>">>

----------------------------------------------------------------------------
(* Bounds of the model                                                     *)

\* host messages (other than sandbox-resource-ready) per session
MaxHostMsgs == 2
\* sandbox-resource-ready messages per session
MaxResourceReady == 1
\* messages the widget sends to the session, per session
MaxInnerMsgs == 1
\* mounts of the page component within one behaviour
MaxMounts == 1
\* bound on the cache writes whose POST is in flight, for the cache alone
MaxWritesInFlight == 1

----------------------------------------------------------------------------
(* Character classes and string helpers                                    *)

LowerAlpha ==
    {"a","b","c","d","e","f","g","h","i","j","k","l","m","n","o","p","q","r",
     "s","t","u","v","w","x","y","z"}

UpperAlpha ==
    {"A","B","C","D","E","F","G","H","I","J","K","L","M","N","O","P","Q","R",
     "S","T","U","V","W","X","Y","Z"}

Digit == {"0","1","2","3","4","5","6","7","8","9"}

Alpha == LowerAlpha \cup UpperAlpha

\* String.prototype.toLowerCase on one character (the upper-case letters the
\* model's identifiers use)
ToLower(c) ==
    CASE c = "H" -> "h"
      [] c = "T" -> "t"
      [] c = "P" -> "p"
      [] c = "S" -> "s"
      [] OTHER -> c

\* String.prototype.includes
Includes(s, sub) ==
    \E i \in 0..(Len(s) - Len(sub)) : SubSeq(s, i + 1, i + Len(sub)) = sub

\* index of the first occurrence of character c in s, 0 when absent
IndexOf(s, c) ==
    IF \E i \in 1..Len(s) : s[i] = c
    THEN CHOOSE i \in 1..Len(s) : s[i] = c /\ \A j \in 1..(i - 1) : s[j] # c
    ELSE 0

\* a JavaScript value is truthy: neither null/undefined nor the empty string
Truthy(v) == v # NULL /\ v # <<>>

----------------------------------------------------------------------------
(* encodeURIComponent / decodeURIComponent                                 *)

\* characters encodeURIComponent leaves alone
UriUnreserved ==
    Alpha \cup Digit \cup {"-", "_", ".", "!", "~", "*", "'", "(", ")"}

\* the two hex digits of the UTF-8 byte of a reserved character
PercentCode(c) ==
    CASE c = ":" -> <<"3", "A">>
      [] c = "/" -> <<"2", "F">>
      [] c = "%" -> <<"2", "5">>
      [] c = "?" -> <<"3", "F">>
      [] c = "=" -> <<"3", "D">>
      [] c = " " -> <<"2", "0">>
      [] c = "<" -> <<"3", "C">>
      [] c = ">" -> <<"3", "E">>

RECURSIVE encodeURIComponent(_)
encodeURIComponent(s) ==
    IF s = <<>> THEN <<>>
    ELSE (IF Head(s) \in UriUnreserved
          THEN <<Head(s)>>
          ELSE <<"%">> \o PercentCode(Head(s)))
         \o encodeURIComponent(Tail(s))

----------------------------------------------------------------------------
(* Resource Route Resolver: isHttpUrl, i.e. new URL(uri).protocol          *)

\* leading and trailing spaces are stripped by the URL parser
RECURSIVE TrimLeft(_)
TrimLeft(s) ==
    IF s # <<>> /\ Head(s) = " " THEN TrimLeft(Tail(s)) ELSE s

RECURSIVE TrimRight(_)
TrimRight(s) ==
    IF s # <<>> /\ s[Len(s)] = " " THEN TrimRight(SubSeq(s, 1, Len(s) - 1)) ELSE s

\* characters allowed in a scheme after its first letter
SchemeChar == Alpha \cup Digit \cup {"+", "-", "."}

\* schemes whose URLs must have a host
SpecialSchemes ==
    { <<"h","t","t","p">>, <<"h","t","t","p","s">>, <<"f","t","p">>,
      <<"w","s">>, <<"w","s","s">> }

\* code points that end the host of a special URL
HostEnd == {"/", "\\", "?", "#"}

\* code points a host may not contain
ForbiddenHost == {" ", "<", ">", "%", "^", "|", "[", "]"}

RECURSIVE SkipSlashes(_)
SkipSlashes(s) ==
    IF s # <<>> /\ Head(s) \in {"/", "\\"} THEN SkipSlashes(Tail(s)) ELSE s

RECURSIVE HostOf(_)
HostOf(s) ==
    IF s = <<>> \/ Head(s) \in HostEnd THEN <<>>
    ELSE <<Head(s)>> \o HostOf(Tail(s))

\* new URL(uri) without a base: the protocol (scheme and ":") of the parsed
\* URL, or NULL when the constructor throws
UrlProtocol(uri) ==
    LET s == TrimRight(TrimLeft(uri))
        colon == IndexOf(s, ":")
        scheme == [i \in 1..(colon - 1) |-> ToLower(s[i])]
        rest == SubSeq(s, colon + 1, Len(s))
        host == HostOf(SkipSlashes(rest))
    IN  IF colon < 2 THEN NULL
        ELSE IF s[1] \notin Alpha THEN NULL
        ELSE IF \E i \in 2..(colon - 1) : s[i] \notin SchemeChar THEN NULL
        ELSE IF scheme \in SpecialSchemes
                /\ (host = <<>> \/ \E i \in 1..Len(host) : host[i] \in ForbiddenHost)
             THEN NULL
        ELSE scheme \o <<":">>

\* variant: a startsWith('http') test instead of URL parsing
isHttpUrlPrefix(uri) ==
    Len(uri) >= 4 /\ SubSeq(uri, 1, 4) = <<"h","t","t","p">>

isHttpUrl(uri) ==
    LET protocol == UrlProtocol(uri)
    IN  protocol = <<"h","t","t","p",":">> \/ protocol = <<"h","t","t","p","s",":">>

----------------------------------------------------------------------------
(* CSP Injector.  An HTML document is a sequence of tokens: whole tags     *)
(* ("<html>", "<head>"), the opening of a CSP meta tag up to its content   *)
(* attribute (MetaOpen), single characters, and runs of text.              *)

DEFAULT_SANDBOX == <<"allow-scripts allow-same-origin">>

\* the built-in policy; it contains none of the characters escapeHtmlAttr
\* rewrites, so it is carried as one unit
DEFAULT_CSP == <<"default-src 'none'; ... form-action 'none'">>

MetaOpen == "<meta http-equiv=\"Content-Security-Policy\" content=\""

\* String.prototype.replace(/c/g, rep) for a one-character pattern
RECURSIVE ReplaceAll(_, _, _)
ReplaceAll(s, c, rep) ==
    IF s = <<>> THEN <<>>
    ELSE (IF Head(s) = c THEN rep ELSE <<Head(s)>>) \o ReplaceAll(Tail(s), c, rep)

escapeHtmlAttr(value) ==
    ReplaceAll(
      ReplaceAll(
        ReplaceAll(
          ReplaceAll(value, "&", <<"&","a","m","p",";">>),
          "\"", <<"&","q","u","o","t",";">>),
        "<", <<"&","l","t",";">>),
      ">", <<"&","g","t",";">>)

\* `<meta http-equiv="Content-Security-Policy" content="${escapeHtmlAttr(csp)}">`
MetaTag(csp) == <<MetaOpen>> \o escapeHtmlAttr(csp) \o <<"\"", ">">>

\* tokens matched by /<head[^>]*>/i and /<html[^>]*>/i
HeadOpen == {"<head>", "<header>"}
HtmlOpen == {"<html>"}

\* what the group ([^>]*) captures in a tag token
TagAttrs(tag) == IF tag = "<header>" THEN <<"e", "r">> ELSE <<>>

\* the grave accent character U+0060, as a token
BackTick == "<grave>"

\* String.prototype.replace with a string as replacement: the patterns
\* $$, $&, $ followed by a grave accent, $ followed by an apostrophe and
\* $n (n a group of the regex) in it are expanded
RECURSIVE ExpandReplacement(_, _)
ExpandReplacement(r, m) ==
    IF r = <<>> THEN <<>>
    ELSE IF Head(r) # "$" \/ Len(r) < 2
         THEN <<Head(r)>> \o ExpandReplacement(Tail(r), m)
    ELSE LET rest == SubSeq(r, 3, Len(r))
         IN  CASE r[2] = "$" -> <<"$">> \o ExpandReplacement(rest, m)
               [] r[2] = "&" -> m.matched \o ExpandReplacement(rest, m)
               [] r[2] = BackTick -> m.before \o ExpandReplacement(rest, m)
               [] r[2] = "'" -> m.after \o ExpandReplacement(rest, m)
               [] r[2] = "1" /\ Len(m.groups) >= 1 ->
                    m.groups[1] \o ExpandReplacement(rest, m)
               [] OTHER -> <<"$">> \o ExpandReplacement(Tail(r), m)

\* the match of a regex at tokens i..j of html, as replace() sees it
MatchAt(html, i, j, groups) ==
    [matched |-> SubSeq(html, i, j), before |-> SubSeq(html, 1, i - 1),
     after |-> SubSeq(html, j + 1, Len(html)), groups |-> groups]

\* first index of a token of set S in html, 0 when there is none
FirstIn(html, S) ==
    IF \E i \in 1..Len(html) : html[i] \in S
    THEN CHOOSE i \in 1..Len(html) :
           html[i] \in S /\ \A j \in 1..(i - 1) : html[j] \notin S
    ELSE 0

\* the first match of cspRegex: it starts at a CSP meta opening and runs
\* through [^>]* to the first ">" after it; <<0, 0>> when nothing matches
CspMatch(html) ==
    LET starts == {i \in 1..Len(html) :
                     html[i] = MetaOpen /\ \E j \in (i + 1)..Len(html) : html[j] = ">"}
    IN  IF starts = {} THEN <<0, 0>>
        ELSE LET i == CHOOSE a \in starts : \A b \in starts : a <= b
                 j == CHOOSE a \in (i + 1)..Len(html) :
                        html[a] = ">" /\ \A b \in (i + 1)..(a - 1) : html[b] # ">"
             IN  <<i, j>>

injectIntoHead(html, headContent) ==
    LET h == FirstIn(html, HeadOpen)
        m == FirstIn(html, HtmlOpen)
    IN  IF headContent = <<>> THEN html
        ELSE IF h > 0
             \* `<head$1>` rebuilds the matched tag
             THEN SubSeq(html, 1, h)
                  \o ExpandReplacement(<<"\n">> \o headContent \o <<"\n">>,
                        MatchAt(html, h, h, <<TagAttrs(html[h])>>))
                  \o SubSeq(html, h + 1, Len(html))
        ELSE IF m > 0
             THEN SubSeq(html, 1, m)
                  \o ExpandReplacement(
                        <<"\n", "<head>", "\n">> \o headContent \o <<"\n", "</head>">>,
                        MatchAt(html, m, m, <<TagAttrs(html[m])>>))
                  \o SubSeq(html, m + 1, Len(html))
        ELSE <<"<head>", "\n">> \o headContent \o <<"\n", "</head>", "\n">> \o html

ensureCspMeta(html, csp, overwrite) ==
    LET metaTag == MetaTag(csp)
        match == CspMatch(html)
        hasCsp == match[1] > 0
    IN  IF ~Truthy(html) \/ ~Truthy(csp) THEN html
        ELSE IF hasCsp /\ ~overwrite THEN html
        ELSE IF hasCsp /\ overwrite
             THEN SubSeq(html, 1, match[1] - 1)
                  \o ExpandReplacement(metaTag,
                        MatchAt(html, match[1], match[2], <<>>))
                  \o SubSeq(html, match[2] + 1, Len(html))
        ELSE injectIntoHead(html, metaTag)

----------------------------------------------------------------------------
(* Client cache helpers (src/utils/cache)                                  *)

CACHE_ENDPOINT_BASE == <<"/","a","p","i","/","c","a","c","h","e">>

encodeCacheKey(key) == encodeURIComponent(encodeURIComponent(key))

\* `${namespace}::${key}`
Namespaced(namespace, key) == namespace \o <<":", ":">> \o key

buildCachePath(key, namespace) ==
    LET namespacedKey == IF Truthy(namespace) THEN Namespaced(namespace, key) ELSE key
    IN  CACHE_ENDPOINT_BASE \o <<"/">> \o encodeCacheKey(namespacedKey)

\* a Map as a function on the set of keys it holds
MapGet(map, key) == IF key \in DOMAIN map THEN map[key] ELSE NULL

MapSet(map, key, val) ==
    [k \in (DOMAIN map) \cup {key} |-> IF k = key THEN val ELSE map[k]]

EmptyMap == [k \in {} |-> NULL]

----------------------------------------------------------------------------
(* Persistent cache endpoint (pages/api/cache/[key].ts)                    *)

HexDigit == Digit \cup {"A","B","C","D","E","F","a","b","c","d","e","f"}

\* the character of a percent-escape, for the escapes PercentCode produces
CharOfCode(h) ==
    CASE h = <<"3", "A">> -> ":"
      [] h = <<"2", "F">> -> "/"
      [] h = <<"2", "5">> -> "%"
      [] h = <<"3", "F">> -> "?"
      [] h = <<"3", "D">> -> "="
      [] h = <<"2", "0">> -> " "
      [] h = <<"3", "C">> -> "<"
      [] h = <<"3", "E">> -> ">"
      [] OTHER -> "<byte>"

\* decodeURIComponent; NULL when it throws URIError
RECURSIVE decodeURIComponent(_)
decodeURIComponent(s) ==
    IF s = <<>> THEN <<>>
    ELSE IF Head(s) # "%"
         THEN LET r == decodeURIComponent(Tail(s))
              IN  IF r = NULL THEN NULL ELSE <<Head(s)>> \o r
    ELSE IF Len(s) < 3 \/ s[2] \notin HexDigit \/ s[3] \notin HexDigit THEN NULL
    ELSE LET r == decodeURIComponent(SubSeq(s, 4, Len(s)))
         IN  IF r = NULL THEN NULL ELSE <<CharOfCode(<<s[2], s[3]>>)>> \o r

\* String.prototype.split('/'): the sequence of segments
RECURSIVE SplitSlash(_)
SplitSlash(s) ==
    LET i == IndexOf(s, "/")
    IN  IF i = 0 THEN <<s>>
        ELSE <<SubSeq(s, 1, i - 1)>> \o SplitSlash(SubSeq(s, i + 1, Len(s)))

\* segments.pop() || segments.pop() || null
RawSegment(pathname) ==
    LET segments == SplitSlash(pathname)
        n == Len(segments)
    IN  IF segments[n] # <<>> THEN segments[n]
        ELSE IF n >= 2 /\ segments[n - 1] # <<>> THEN segments[n - 1]
        ELSE NULL

\* the origin is fixed for a deployment and left out of cacheUrl
getCacheKey(pathname) ==
    LET rawSegment == RawSegment(pathname)
        decoded == IF rawSegment = NULL THEN NULL ELSE decodeURIComponent(rawSegment)
    IN  [cacheKey |-> IF rawSegment = NULL THEN NULL
                      ELSE IF decoded = NULL THEN rawSegment ELSE decoded,
         cacheUrl |-> CACHE_ENDPOINT_BASE \o <<"/">>
                      \o (IF rawSegment = NULL THEN <<>>
                          ELSE encodeURIComponent(rawSegment))]

readFromCache(st, cacheUrl) == MapGet(st, cacheUrl)

\* variant: an entry that exists is kept
writeToCacheFirstWins(st, cacheUrl, html) ==
    IF cacheUrl \in DOMAIN st THEN st ELSE MapSet(st, cacheUrl, html)

writeToCache(st, cacheUrl, html) == MapSet(st, cacheUrl, html)

\* A request body: its raw text, whether it parses as JSON, and the html
\* field of the parsed value when that is a string (NULL otherwise).
TextBody(text) == [text |-> text, jsonValid |-> FALSE, jsonHtml |-> NULL]

\* handler(req): the response and the store after it.  status 500 stands for
\* an exception that escapes the handler.
handler(method, pathname, isJson, body, st) ==
    LET k == getCacheKey(pathname)
        jsonRead == method = "POST" /\ isJson
        \* req.json() consumes the body; html is set when it holds a string
        html1 == IF jsonRead /\ body.jsonValid /\ body.jsonHtml # NULL
                 THEN body.jsonHtml ELSE NULL
        \* req.text() after req.json() read the body rejects: body already used
        textThrows == html1 = NULL /\ jsonRead
        html2 == IF html1 # NULL THEN html1
                 ELSE IF body.text # <<>> THEN body.text ELSE NULL
    IN  IF ~Truthy(k.cacheKey)
        THEN [status |-> 400, body |-> <<"Missing cache key">>, store |-> st]
        ELSE IF method = "GET"
        THEN LET cached == readFromCache(st, k.cacheUrl)
             IN  IF cached = NULL
                 THEN [status |-> 404, body |-> <<"Not Found">>, store |-> st]
                 ELSE [status |-> 200, body |-> cached, store |-> st]
        ELSE IF method = "POST"
        THEN IF textThrows
             THEN [status |-> 500, body |-> <<>>, store |-> st]
             ELSE IF ~Truthy(html2)
             THEN [status |-> 400, body |-> <<"Missing HTML body">>, store |-> st]
             ELSE [status |-> 200, body |-> <<"ok">>,
                   store |-> writeToCache(st, k.cacheUrl, html2)]
        ELSE [status |-> 405, body |-> <<"Method Not Allowed">>, store |-> st,
              allow |-> <<"GET, POST">>]

----------------------------------------------------------------------------
(* Inputs                                                                  *)

CACHE_BUSTER == <<"c","a","c","h","e","_","b","u","s","t","e","r">>

ResUi == <<"u","i",":","/","/","x">>
ResHttps == <<"h","t","t","p","s",":","/","/","x">>
ResBuster == <<"u","i",":","x","?">> \o CACHE_BUSTER

\* router.query.id
FlowIds == {NULL, <<"f","1">>}

\* router.query.url
ResourceInputs == {NULL, ResUi, ResHttps, ResBuster}

RouterQuery(flowId, resourceUrl, noCache) ==
    [flowId |-> flowId, resourceUrl |-> resourceUrl, noCache |-> noCache]

\* what a mount reads from the router: flowId, resourceUrl, noCacheParam
MountInputs ==
    { RouterQuery(<<"f","1">>, ResUi, FALSE),
      RouterQuery(<<"f","1">>, ResUi, TRUE),
      RouterQuery(<<"f","1">>, ResBuster, FALSE),
      RouterQuery(NULL, ResUi, TRUE),
      RouterQuery(NULL, ResHttps, FALSE),
      RouterQuery(NULL, NULL, FALSE) }

HtmlPlain == <<"<html>", "w">>
HtmlWithCsp == <<"<head>", MetaOpen, "p", "\"", ">", "w">>
\* html whose only CSP meta tag is text inside a comment
HtmlCommentedCsp == <<"<!--", MetaOpen, "p", "\"", ">", "-->", "w">>
\* a policy with characters escapeHtmlAttr rewrites and a "$" sequence
CspHostile == <<"a", "\"", ">", "$", "&">>

\* params of a sandbox-resource-ready message: html, sandbox, resource, csp
ResourceReadyInputs ==
    { [html |-> HtmlPlain, sandbox |-> NULL, resource |-> NULL, csp |-> NULL],
      [html |-> HtmlWithCsp, sandbox |-> <<"allow-scripts">>, resource |-> ResUi,
       csp |-> CspHostile],
      [html |-> <<>>, sandbox |-> <<" ">>, resource |-> NULL, csp |-> <<>>],
      [html |-> HtmlCommentedCsp, sandbox |-> NULL, resource |-> NULL, csp |-> NULL],
      [html |-> NULL, sandbox |-> NULL, resource |-> NULL, csp |-> NULL] }

----------------------------------------------------------------------------
(* State                                                                   *)

VARIABLES
    sess,            \* number of mounts so far; the current session's id
    mounted,         \* the effect has run and its cleanup has not
    params,          \* flowId, resourceUrl, noCacheParam of the session
    innerReady,      \* let innerReady
    pendingMessages, \* const pendingMessages
    flushTimeout,    \* let flushTimeout: {} for null, {t} for a timer handle
    timers,          \* timers set by setTimeout and not yet run or cleared
    doc,             \* number of documents assigned to the inner iframe
    docSrc,          \* what the iframe shows: blank, src or srcdoc
    loaded,          \* the current document's load event has fired
    sandboxAttr,     \* the iframe's sandbox attribute
    readySent,       \* the current document has sent client-ready
    innerQueue,      \* messages the widget posted, not yet handled, in order
    innerCount,      \* messages other than client-ready the widget posted
    fetches,         \* GET requests of fetchCachedHtmlFromApi in flight
    posts,           \* POST requests of persistCachedHtmlToApi in flight
    htmlCache,       \* the memory tier: const htmlCache (process-wide)
    store,           \* the persistent tier behind /api/cache
    srrCount,        \* sandbox-resource-ready messages handled by the session
    written,         \* history: the html last written under each cache key
    hostArrived,     \* history: host messages accepted for relay, in order
    toInner,         \* history: messages posted to the widget, in order
    events,          \* history: the session's own posts to the host and its cache reads
    relayed,         \* history: widget messages posted on to the host
    handshake,       \* history: the current document's handshake completed
    probe            \* a helper or the cache endpoint called on its own: the call and its result

sessionVars == <<sess, mounted, params>>
docVars == <<doc, docSrc, loaded, readySent>>
cacheVars == <<htmlCache, store, fetches, posts, written>>
widgetVars == <<innerQueue, innerCount>>

vars == <<sess, mounted, params, innerReady, pendingMessages, flushTimeout,
          timers, doc, docSrc, loaded, sandboxAttr, readySent, innerQueue,
          innerCount, fetches, posts, htmlCache, store, srrCount, written,
          hostArrived, toInner, events, relayed, handshake, probe>>

\* no helper has been called on its own
NoProbe == [fn |-> "none"]

BlankDoc == [kind |-> "blank", val |-> <<>>]

NoParams == [flowId |-> NULL, resourceUrl |-> NULL, noCache |-> FALSE]

\* What an earlier session of flow f1 showing ResUi left behind when the
\* host answered it with HtmlPlain and no csp: the html handleResourceReady
\* stores, its key in the memory tier and the store after its POST.
PriorHtml == ensureCspMeta(HtmlPlain, DEFAULT_CSP, TRUE)

PriorMemory == MapSet(EmptyMap, Namespaced(<<"f","1">>, ResUi), PriorHtml)

PriorStore ==
    handler("POST", buildCachePath(ResUi, <<"f","1">>), FALSE,
            TextBody(PriorHtml), EmptyMap).store

\* The page before a mount: on first use (both tiers empty), in a process
\* where the earlier session ran (memory tier warm), or in a fresh process
\* after it (memory tier empty, persistent tier filled).
InitCaches ==
    { [memory |-> EmptyMap, store |-> EmptyMap],
      [memory |-> PriorMemory, store |-> PriorStore],
      [memory |-> EmptyMap, store |-> PriorStore] }

Init ==
    /\ sess = 0
    /\ mounted = FALSE
    /\ params = NoParams
    /\ innerReady = FALSE
    /\ pendingMessages = <<>>
    /\ flushTimeout = {}
    /\ timers = {}
    /\ doc = 0
    /\ docSrc = BlankDoc
    /\ loaded = FALSE
    /\ sandboxAttr = DEFAULT_SANDBOX
    /\ readySent = FALSE
    /\ innerQueue = <<>>
    /\ innerCount = 0
    /\ fetches = {}
    /\ posts = {}
    /\ \E c \in InitCaches : htmlCache = c.memory /\ store = c.store
    /\ written = htmlCache
    /\ srrCount = 0
    /\ hostArrived = <<>>
    /\ toInner = <<>>
    /\ events = <<>>
    /\ relayed = <<>>
    /\ handshake = FALSE
    /\ probe = NoProbe

\* const cacheNamespace = flowId || 'default'
cacheNamespace(p) ==
    IF Truthy(p.flowId) THEN p.flowId ELSE <<"d","e","f","a","u","l","t">>

\* const namespacedKey = resourceUrl ? `${cacheNamespace}::${resourceUrl}` : null
namespacedKey(p) ==
    IF Truthy(p.resourceUrl) THEN Namespaced(cacheNamespace(p), p.resourceUrl)
    ELSE NULL

\* x || undefined
OrUndefined(x) == IF Truthy(x) THEN x ELSE NULL

Ev(s, kind, a, b) == [sess |-> s, ev |-> kind, a |-> a, b |-> b]

----------------------------------------------------------------------------
(* Session: readiness handshake and relay (pages/[id]/index.tsx)           *)

CLIENT_READY == <<"ui/notifications/client-ready">>

\* payloads of widget messages other than client-ready
InnerPayloads == {<<"w">>}

\* inner.contentWindow is non-null while the iframe is attached
HasContentWindow == mounted

\* history entries for a post of msgs to the widget; hs tells whether the
\* current document's handshake has completed at that moment, via whether
\* the post is a direct forward or part of a flush of the queue
Posted(msgs, hs, via) ==
    [i \in 1..Len(msgs) |->
       [msg |-> msgs[i], doc |-> doc, hs |-> hs, via |-> via]]

\* variant: a message arriving before READY is dropped instead of queued
forwardToInnerDropping(data) ==
    IF innerReady /\ HasContentWindow
    THEN /\ toInner' = toInner \o Posted(<<data>>, handshake, "direct")
         /\ UNCHANGED pendingMessages
    ELSE UNCHANGED <<pendingMessages, toInner>>

forwardToInner(data) ==
    IF innerReady /\ HasContentWindow
    THEN /\ toInner' = toInner \o Posted(<<data>>, handshake, "direct")
         /\ UNCHANGED pendingMessages
    ELSE /\ pendingMessages' = Append(pendingMessages, data)
         /\ UNCHANGED toInner

Reverse(q) == [i \in 1..Len(q) |-> q[Len(q) + 1 - i]]

\* variant: pop() instead of shift(), the queue is emptied last-in first-out
flushPendingMessagesLifo(hs) ==
    IF ~HasContentWindow
    THEN UNCHANGED <<innerReady, pendingMessages, toInner>>
    ELSE /\ innerReady' = TRUE
         /\ toInner' = toInner \o Posted(Reverse(pendingMessages), hs, "flush")
         /\ pendingMessages' = <<>>

\* variant: the queue is read without being emptied
flushPendingMessagesKeeping(hs) ==
    IF ~HasContentWindow
    THEN UNCHANGED <<innerReady, pendingMessages, toInner>>
    ELSE /\ innerReady' = TRUE
         /\ toInner' = toInner \o Posted(pendingMessages, hs, "flush")
         /\ UNCHANGED pendingMessages

flushPendingMessages(hs) ==
    IF ~HasContentWindow
    THEN UNCHANGED <<innerReady, pendingMessages, toInner>>
    ELSE /\ innerReady' = TRUE
         /\ toInner' = toInner \o Posted(pendingMessages, hs, "flush")
         /\ pendingMessages' = <<>>

\* a new document is assigned to the iframe (src or srcdoc)
AssignDoc(src) ==
    /\ doc' = doc + 1
    /\ docSrc' = src
    /\ loaded' = FALSE
    /\ readySent' = FALSE
    /\ handshake' = FALSE

Srcdoc(html) == [kind |-> "srcdoc", val |-> html]

\* inner.addEventListener('load', ...): arms the fallback timer
loadListener ==
    LET t == [sess |-> sess, doc |-> doc]
    IN  /\ flushTimeout' = {t}
        /\ timers' = timers \cup {t}

\* the current document's load event fires
LoadEvent ==
    /\ mounted
    /\ ~loaded
    /\ loaded' = TRUE
    /\ loadListener
    /\ UNCHANGED probe
    /\ UNCHANGED <<sessionVars, innerReady, pendingMessages, doc, docSrc,
                   sandboxAttr, readySent, widgetVars, cacheVars, srrCount,
                   hostArrived, toInner, events, relayed, handshake>>

\* variant: the callback never flushes
timerCallbackIdle(t) == UNCHANGED <<innerReady, pendingMessages, toInner>>

\* the setTimeout callback; a timer of an earlier session finds its own
\* iframe detached and does nothing
timerCallback(t) ==
    IF t.sess = sess /\ ~innerReady
    THEN flushPendingMessages(handshake')
    ELSE UNCHANGED <<innerReady, pendingMessages, toInner>>

TimerExpires ==
    \E t \in timers :
        /\ timers' = timers \ {t}
        /\ handshake' = (handshake \/ (t.sess = sess /\ t.doc = doc))
        /\ timerCallback(t)
        /\ UNCHANGED probe
        /\ UNCHANGED <<sessionVars, flushTimeout, doc, docSrc, loaded,
                       sandboxAttr, readySent, widgetVars, cacheVars, srrCount,
                       hostArrived, events, relayed>>

\* the widget's document posts a message to the session
WidgetPosts ==
    /\ mounted
    /\ doc > 0
    /\ \/ /\ ~readySent
          /\ readySent' = TRUE
          /\ innerQueue' = Append(innerQueue, [doc |-> doc, data |-> CLIENT_READY])
          /\ UNCHANGED innerCount
       \/ /\ innerCount < MaxInnerMsgs
          /\ \E w \in InnerPayloads :
               innerQueue' = Append(innerQueue, [doc |-> doc, data |-> w])
          /\ innerCount' = innerCount + 1
          /\ UNCHANGED readySent
    /\ UNCHANGED probe
    /\ UNCHANGED <<sessionVars, innerReady, pendingMessages, flushTimeout,
                   timers, doc, docSrc, loaded, sandboxAttr, cacheVars,
                   srrCount, hostArrived, toInner, events, relayed, handshake>>

\* variant: client-ready is forwarded to the host like any other message
handleInnerForwardAll(e) ==
    /\ relayed' = Append(relayed, e.data)
    /\ IF e.data = CLIENT_READY
       THEN /\ timers' = timers \ flushTimeout
            /\ flushTimeout' = {}
            /\ handshake' = (handshake \/ e.doc = doc)
            /\ flushPendingMessages(handshake')
       ELSE UNCHANGED <<timers, flushTimeout, handshake, innerReady,
                        pendingMessages, toInner>>

\* handleMessage, event.source === inner.contentWindow
handleInner(e) ==
    IF e.data = CLIENT_READY
    THEN /\ timers' = timers \ flushTimeout
         /\ flushTimeout' = {}
         /\ handshake' = (handshake \/ e.doc = doc)
         /\ flushPendingMessages(handshake')
         /\ UNCHANGED relayed
    ELSE /\ relayed' = Append(relayed, e.data)
         /\ UNCHANGED <<timers, flushTimeout, handshake, innerReady,
                        pendingMessages, toInner>>

InnerMessage ==
    /\ mounted
    /\ innerQueue # <<>>
    /\ innerQueue' = Tail(innerQueue)
    /\ handleInner(Head(innerQueue))
    /\ UNCHANGED probe
    /\ UNCHANGED <<sessionVars, doc, docSrc, loaded, sandboxAttr, readySent,
                   innerCount, cacheVars, srrCount, hostArrived, events>>

\* handleMessage, event.source === window.parent, any method other than
\* sandbox-resource-ready
HostMessage ==
    /\ mounted
    /\ Len(hostArrived) < MaxHostMsgs
    /\ LET data == Len(hostArrived) + 1
       IN  /\ hostArrived' = Append(hostArrived, data)
           /\ forwardToInner(data)
    /\ UNCHANGED probe
    /\ UNCHANGED <<sessionVars, innerReady, flushTimeout, timers, docVars,
                   sandboxAttr, widgetVars, cacheVars, srrCount, events,
                   relayed, handshake>>

\* String.prototype.trim
Trim(s) == TrimRight(TrimLeft(s))

\* handleMessage, sandbox-resource-ready with params q
handleResourceReady(q) ==
    LET sandboxValue ==
            IF q.sandbox # NULL /\ Trim(q.sandbox) # <<>> THEN q.sandbox
            ELSE DEFAULT_SANDBOX
        effectiveCsp == IF Truthy(q.csp) THEN q.csp ELSE DEFAULT_CSP
        safeHtml == ensureCspMeta(q.html, effectiveCsp, TRUE)
        resourceForCache ==
            IF q.resource # NULL THEN q.resource ELSE params.resourceUrl
        ns == cacheNamespace(params)
        cacheKey ==
            IF Truthy(resourceForCache) THEN Namespaced(ns, resourceForCache)
            ELSE NULL
    IN  /\ sandboxAttr' = sandboxValue
        /\ IF q.html # NULL
           THEN /\ innerReady' = FALSE
                /\ AssignDoc(Srcdoc(safeHtml))
                /\ IF Truthy(cacheKey) /\ Truthy(resourceForCache)
                   THEN /\ htmlCache' = MapSet(htmlCache, cacheKey, safeHtml)
                        /\ written' = MapSet(written, cacheKey, safeHtml)
                        /\ posts' = posts \cup
                             {[sess |-> sess, n |-> srrCount + 1,
                               path |-> buildCachePath(resourceForCache, ns),
                               body |-> safeHtml]}
                   ELSE UNCHANGED <<htmlCache, written, posts>>
           ELSE UNCHANGED <<innerReady, docVars, handshake, htmlCache, written,
                            posts>>

HostResourceReady ==
    /\ mounted
    /\ srrCount < MaxResourceReady
    /\ srrCount' = srrCount + 1
    /\ \E q \in ResourceReadyInputs : handleResourceReady(q)
    /\ UNCHANGED probe
    /\ UNCHANGED <<sessionVars, pendingMessages, flushTimeout, timers,
                   widgetVars, store, fetches, hostArrived, toInner, events,
                   relayed>>

----------------------------------------------------------------------------
(* Session: mount, cache priming and teardown                              *)

\* variant: the noCache / cache_buster test is missing
primeNoSkip(p, cache) ==
    IF ~Truthy(p.resourceUrl) \/ ~Truthy(namespacedKey(p)) THEN "none"
    ELSE IF Truthy(MapGet(cache, namespacedKey(p))) THEN "memory"
    ELSE "fetch"

\* variant: the persistent tier is asked without looking at the memory tier
primePersistentFirst(p, cache) ==
    IF ~Truthy(p.resourceUrl) \/ ~Truthy(namespacedKey(p)) THEN "none"
    ELSE IF p.noCache \/ Includes(p.resourceUrl, CACHE_BUSTER) THEN "skip"
    ELSE "fetch"

\* primeIframeFromCache up to its first await: "none" without a resource,
\* "skip" for noCache or the legacy marker, "memory" on a memory-tier hit,
\* "fetch" when the persistent tier is asked
primeIframeFromCache(p, cache) ==
    IF ~Truthy(p.resourceUrl) \/ ~Truthy(namespacedKey(p)) THEN "none"
    ELSE IF p.noCache \/ Includes(p.resourceUrl, CACHE_BUSTER) THEN "skip"
    ELSE IF Truthy(MapGet(cache, namespacedKey(p))) THEN "memory"
    ELSE "fetch"

SandboxReady(s, p) ==
    Ev(s, "sandbox-ready", OrUndefined(p.flowId), OrUndefined(p.resourceUrl))

SandboxResource(s, flowId, resourceUrl) ==
    Ev(s, "sandbox-resource", OrUndefined(flowId), resourceUrl)

\* Direct or Sandboxed
IsDirect(p) == Truthy(p.resourceUrl) /\ isHttpUrl(p.resourceUrl)

\* variant: the cache is read before sandbox-ready is posted
mountEventsCacheFirst(s, p, cache) ==
    LET key == namespacedKey(p)
        outcome == primeIframeFromCache(p, cache)
    IN  IF IsDirect(p)
        THEN << SandboxReady(s, p) >>
        ELSE CASE outcome = "none" -> << SandboxReady(s, p) >>
               [] outcome = "skip" ->
                    << SandboxReady(s, p), Ev(s, "read", <<"miss">>, NULL),
                       SandboxResource(s, p.flowId, p.resourceUrl) >>
               [] outcome = "memory" ->
                    << Ev(s, "memRead", key, NULL), SandboxReady(s, p),
                       Ev(s, "read", <<"hit">>, MapGet(cache, key)) >>
               [] outcome = "fetch" ->
                    << Ev(s, "memRead", key, NULL), SandboxReady(s, p),
                       Ev(s, "apiGet",
                          buildCachePath(p.resourceUrl, cacheNamespace(p)), NULL) >>

\* what the effect posts and which cache tiers it touches, in order, up to
\* the first suspension (the .then callback of an already settled read runs
\* before any other event)
mountEvents(s, p, cache) ==
    LET key == namespacedKey(p)
        outcome == primeIframeFromCache(p, cache)
    IN  IF IsDirect(p)
        THEN << SandboxReady(s, p) >>
        ELSE CASE outcome = "none" -> << SandboxReady(s, p) >>
               [] outcome = "skip" ->
                    << SandboxReady(s, p), Ev(s, "read", <<"miss">>, NULL),
                       SandboxResource(s, p.flowId, p.resourceUrl) >>
               [] outcome = "memory" ->
                    << SandboxReady(s, p), Ev(s, "memRead", key, NULL),
                       Ev(s, "read", <<"hit">>, MapGet(cache, key)) >>
               [] outcome = "fetch" ->
                    << SandboxReady(s, p), Ev(s, "memRead", key, NULL),
                       Ev(s, "apiGet",
                          buildCachePath(p.resourceUrl, cacheNamespace(p)), NULL) >>

\* the document the iframe holds when the effect returns
mountDoc(p, cache) ==
    IF IsDirect(p) THEN [kind |-> "src", val |-> p.resourceUrl]
    ELSE IF primeIframeFromCache(p, cache) = "memory"
         THEN Srcdoc(ensureCspMeta(MapGet(cache, namespacedKey(p)), DEFAULT_CSP, FALSE))
    ELSE BlankDoc

\* the useEffect body with router values p.  Timers left by an earlier
\* session act on that session's detached iframe only (timerCallback does
\* nothing for them); they are dropped here.
Mount(p) ==
    /\ ~mounted
    /\ sess < MaxMounts
    /\ sess' = sess + 1
    /\ mounted' = TRUE
    /\ params' = p
    /\ innerReady' = FALSE
    /\ pendingMessages' = <<>>
    /\ flushTimeout' = {}
    /\ sandboxAttr' = DEFAULT_SANDBOX
    /\ docSrc' = mountDoc(p, htmlCache)
    /\ doc' = IF docSrc' = BlankDoc THEN 0 ELSE 1
    /\ loaded' = FALSE
    /\ readySent' = FALSE
    /\ handshake' = FALSE
    /\ innerQueue' = <<>>
    /\ innerCount' = 0
    /\ srrCount' = 0
    /\ hostArrived' = <<>>
    /\ toInner' = <<>>
    /\ events' = mountEvents(sess + 1, p, htmlCache)
    /\ relayed' = <<>>
    /\ timers' = {}
    /\ fetches' =
         IF ~IsDirect(p) /\ primeIframeFromCache(p, htmlCache) = "fetch"
         THEN fetches \cup
                {[sess |-> sess + 1, flowId |-> p.flowId,
                  resourceUrl |-> p.resourceUrl, key |-> namespacedKey(p),
                  path |-> buildCachePath(p.resourceUrl, cacheNamespace(p)),
                  phase |-> "sent", ok |-> FALSE, body |-> <<>>]}
         ELSE fetches
    /\ UNCHANGED probe
    /\ UNCHANGED <<posts, htmlCache, store, written>>

MountStep == \E p \in MountInputs : Mount(p)

\* the persistent tier answers a GET of fetchCachedHtmlFromApi
ApiGetServed ==
    \E f \in fetches :
        /\ f.phase = "sent"
        /\ LET r == handler("GET", f.path, FALSE, TextBody(<<>>), store)
           IN  fetches' = (fetches \ {f}) \cup
                 {[f EXCEPT !.phase = "resp", !.ok = (r.status = 200),
                            !.body = r.body]}
        /\ UNCHANGED probe
        /\ UNCHANGED <<sessionVars, innerReady, pendingMessages, flushTimeout,
                       timers, docVars, sandboxAttr, widgetVars, posts,
                       htmlCache, store, written, srrCount, hostArrived,
                       toInner, events, relayed, handshake>>

\* the GET fails in transport: fetch rejects
ApiGetFails ==
    \E f \in fetches :
        /\ f.phase = "sent"
        /\ fetches' = (fetches \ {f}) \cup {[f EXCEPT !.phase = "resp"]}
        /\ UNCHANGED probe
        /\ UNCHANGED <<sessionVars, innerReady, pendingMessages, flushTimeout,
                       timers, docVars, sandboxAttr, widgetVars, posts,
                       htmlCache, store, written, srrCount, hostArrived,
                       toInner, events, relayed, handshake>>

\* variant: the .then callback does not look at found
primeContinuationAlwaysAsks(f) ==
    LET cachedHtml == IF f.ok THEN f.body ELSE NULL
        shown == ensureCspMeta(cachedHtml, DEFAULT_CSP, FALSE)
    IN  IF Truthy(cachedHtml)
        THEN /\ htmlCache' = MapSet(htmlCache, f.key, cachedHtml)
             /\ events' = events \o
                  << Ev(f.sess, "read", <<"hit">>, cachedHtml),
                     SandboxResource(f.sess, f.flowId, f.resourceUrl) >>
             /\ IF f.sess = sess /\ mounted
                THEN AssignDoc(Srcdoc(shown))
                ELSE UNCHANGED <<docVars, handshake>>
        ELSE /\ events' = events \o
                  << Ev(f.sess, "read", <<"miss">>, NULL),
                     SandboxResource(f.sess, f.flowId, f.resourceUrl) >>
             /\ UNCHANGED <<htmlCache, docVars, handshake>>

\* variant: a persistent hit is shown but not copied to the memory tier
primeContinuationNoBackfill(f) ==
    LET cachedHtml == IF f.ok THEN f.body ELSE NULL
        shown == ensureCspMeta(cachedHtml, DEFAULT_CSP, FALSE)
    IN  IF Truthy(cachedHtml)
        THEN /\ UNCHANGED htmlCache
             /\ events' = events \o
                  << Ev(f.sess, "read", <<"hit">>, cachedHtml) >>
             /\ IF f.sess = sess /\ mounted
                THEN AssignDoc(Srcdoc(shown))
                ELSE UNCHANGED <<docVars, handshake>>
        ELSE /\ events' = events \o
                  << Ev(f.sess, "read", <<"miss">>, NULL),
                     SandboxResource(f.sess, f.flowId, f.resourceUrl) >>
             /\ UNCHANGED <<htmlCache, docVars, handshake>>

\* fetchCachedHtmlFromApi resolves: the rest of primeIframeFromCache and
\* its .then callback, for the session that started the read
primeContinuation(f) ==
    LET cachedHtml == IF f.ok THEN f.body ELSE NULL
        shown == ensureCspMeta(cachedHtml, DEFAULT_CSP, FALSE)
    IN  IF Truthy(cachedHtml)
        THEN /\ htmlCache' = MapSet(htmlCache, f.key, cachedHtml)
             /\ events' = events \o
                  << Ev(f.sess, "read", <<"hit">>, cachedHtml) >>
             /\ IF f.sess = sess /\ mounted
                THEN AssignDoc(Srcdoc(shown))
                ELSE UNCHANGED <<docVars, handshake>>
        ELSE /\ events' = events \o
                  << Ev(f.sess, "read", <<"miss">>, NULL),
                     SandboxResource(f.sess, f.flowId, f.resourceUrl) >>
             /\ UNCHANGED <<htmlCache, docVars, handshake>>

FetchContinuation ==
    \E f \in fetches :
        /\ f.phase = "resp"
        /\ fetches' = fetches \ {f}
        /\ primeContinuation(f)
        /\ UNCHANGED probe
        /\ UNCHANGED <<sessionVars, innerReady, pendingMessages, flushTimeout,
                       timers, sandboxAttr, widgetVars, posts, store, written,
                       srrCount, hostArrived, toInner, relayed>>

\* the persistent tier handles a POST of persistCachedHtmlToApi
ApiPostServed ==
    \E q \in posts :
        /\ posts' = posts \ {q}
        /\ store' = handler("POST", q.path, FALSE, TextBody(q.body), store).store
        /\ UNCHANGED probe
        /\ UNCHANGED <<sessionVars, innerReady, pendingMessages, flushTimeout,
                       timers, docVars, sandboxAttr, widgetVars, fetches,
                       htmlCache, written, srrCount, hostArrived, toInner,
                       events, relayed, handshake>>

\* the POST is lost in transport; the rejection is swallowed
ApiPostFails ==
    \E q \in posts :
        /\ posts' = posts \ {q}
        /\ UNCHANGED probe
        /\ UNCHANGED <<sessionVars, innerReady, pendingMessages, flushTimeout,
                       timers, docVars, sandboxAttr, widgetVars, fetches,
                       htmlCache, store, written, srrCount, hostArrived,
                       toInner, events, relayed, handshake>>

\* the effect's cleanup: the handler is removed and the iframe detached
Unmount ==
    /\ mounted
    /\ mounted' = FALSE
    /\ innerQueue' = <<>>
    /\ UNCHANGED probe
    /\ UNCHANGED <<sess, params, innerReady, pendingMessages, flushTimeout,
                   timers, docVars, sandboxAttr, innerCount, cacheVars,
                   srrCount, hostArrived, toInner, events, relayed, handshake>>

Next ==
    \/ MountStep
    \/ LoadEvent
    \/ TimerExpires
    \/ WidgetPosts
    \/ InnerMessage
    \/ HostMessage
    \/ HostResourceReady
    \/ ApiGetServed
    \/ ApiGetFails
    \/ FetchContinuation
    \/ ApiPostServed
    \/ ApiPostFails
    \/ Unmount

Spec == Init /\ [][Next]_vars


----------------------------------------------------------------------------
(* Properties of the relay                                                 *)

\* the messages posted to the widget so far, in order
PostedMsgs == [i \in 1..Len(toInner) |-> toInner[i].msg]

\* C1: no host message is posted to the widget before the handshake of the
\* document the iframe currently holds has completed, by that document's
\* client-ready or by the expiry of the timer its own load event started;
\* this also holds after a sandbox-resource-ready replaced the document,
\* whatever timers earlier load events left behind.
C1_NoPostBeforeHandshake ==
    \A i \in 1..Len(toInner) : toInner[i].hs

\* C2: the messages posted to the widget are, in order, a prefix of the
\* host messages in arrival order, and while the session is mounted the
\* queue holds exactly the remaining ones in arrival order: queued messages
\* are flushed first-in first-out before any later message is forwarded.
C2_FifoPrefix ==
    /\ Len(PostedMsgs) <= Len(hostArrived)
    /\ PostedMsgs = SubSeq(hostArrived, 1, Len(PostedMsgs))
    /\ mounted => PostedMsgs \o pendingMessages = hostArrived

\* C2 case: two messages that had been queued were flushed together
C2_Witness ==
    /\ Len(toInner) = 2
    /\ toInner[1].via = "flush"
    /\ toInner[2].via = "flush"

\* a step that handles the head of the widget's message queue
InnerStep == mounted /\ mounted' /\ innerQueue # <<>> /\ innerQueue' = Tail(innerQueue)

\* C4: client-ready from the widget is never posted to the host; any other
\* widget message is posted to the host at once and unchanged, READY or
\* not, and is never put on the queue of host messages.
C4_InnerRelay ==
    /\ [](\A i \in 1..Len(relayed) : relayed[i] # CLIENT_READY)
    /\ [][InnerStep =>
            IF Head(innerQueue).data = CLIENT_READY
            THEN relayed' = relayed
            ELSE /\ relayed' = Append(relayed, Head(innerQueue).data)
                 /\ pendingMessages' = pendingMessages
                 /\ toInner' = toInner]_vars

\* C4 case: a widget message went to the host while the session was not
\* READY and a host message was waiting in the queue
C4_Witness ==
    /\ Len(relayed) = 1
    /\ ~innerReady
    /\ pendingMessages # <<>>
    /\ doc > 0

\* C5: a sandbox-resource-ready message is consumed by the session, neither
\* queued nor posted to the widget; any other host message is posted to the
\* widget at once when READY and appended to the queue otherwise, never
\* dropped.
C5_HostDispatch ==
    [][/\ srrCount' = srrCount + 1 =>
            pendingMessages' = pendingMessages /\ toInner' = toInner
       /\ Len(hostArrived') = Len(hostArrived) + 1 =>
            LET data == hostArrived'[Len(hostArrived')]
            IN  IF innerReady
                THEN /\ PostedMsgs' = Append(PostedMsgs, data)
                     /\ pendingMessages' = pendingMessages
                ELSE /\ pendingMessages' = Append(pendingMessages, data)
                     /\ toInner' = toInner]_vars

\* C5 case: one host message was posted directly while READY, then a
\* sandbox-resource-ready was consumed and the next host message queued
C5_Witness ==
    /\ srrCount = 1
    /\ Len(toInner) = 1
    /\ toInner[1].via = "direct"
    /\ pendingMessages = <<2>>
    /\ ~innerReady

----------------------------------------------------------------------------
(* The stalled widget: no document ever sends client-ready                 *)

\* every step of the page except those of a widget that posts messages
NextStalled ==
    \/ MountStep
    \/ LoadEvent
    \/ TimerExpires
    \/ HostMessage
    \/ HostResourceReady
    \/ ApiGetServed
    \/ ApiGetFails
    \/ FetchContinuation
    \/ ApiPostServed
    \/ ApiPostFails
    \/ Unmount

\* the browser eventually fires a pending load event and eventually runs a
\* timer that is due
StalledSpec ==
    Init /\ [][NextStalled]_vars /\ WF_vars(LoadEvent) /\ WF_vars(TimerExpires)

InSeq(x, q) == \E i \in 1..Len(q) : q[i] = x

\* C3: when the widget never sends client-ready and load events and timer
\* expiries are fair, every host message queued while the session is not
\* READY is eventually posted to the widget, as long as the session stays
\* mounted.
C3_StalledWidgetDelivery ==
    \A m \in 1..MaxHostMsgs :
        (mounted /\ InSeq(m, pendingMessages))
            ~> (~mounted \/ InSeq(m, PostedMsgs))

\* C3 case: the fallback timer started by the load of a widget document
\* flushed a queued message to that document
C3_Witness ==
    /\ mounted
    /\ doc >= 1
    /\ handshake
    /\ Len(toInner) >= 1
    /\ toInner[Len(toInner)].via = "flush"
    /\ toInner[Len(toInner)].doc = doc
    /\ toInner[Len(toInner)].hs

----------------------------------------------------------------------------
(* Properties of mounting and of the cache                                 *)

\* the current session's own posts to the host and cache reads, in order
Mine == SelectSeq(events, LAMBDA e : e.sess = sess)

EventsOf(kind) == {i \in 1..Len(Mine) : Mine[i].ev = kind}

ReadsWith(outcome) ==
    {i \in 1..Len(Mine) : Mine[i].ev = "read" /\ Mine[i].a = <<outcome>>}

HitStep ==
    /\ mounted'
    /\ Len(events') > Len(events)
    /\ events'[Len(events')].sess = sess'
    /\ events'[Len(events')].ev = "read"
    /\ events'[Len(events')].a = <<"hit">>

\* C7: on the Sandboxed path with a resource, sandbox-resource is posted
\* if and only if the cache read reported not found (nothing stored, the
\* bypass, a persistent-tier error or transport failure), at most once per
\* mount, with the flow identifier and the resource identifier; on a hit
\* the cached HTML is assigned to the iframe and no sandbox-resource is
\* ever posted.
C7_ResourceRequestIffMiss ==
    /\ [](sess > 0 /\ ~IsDirect(params) /\ Truthy(params.resourceUrl) =>
            /\ Cardinality(EventsOf("sandbox-resource")) <= 1
            /\ EventsOf("sandbox-resource") # {} <=> ReadsWith("miss") # {}
            /\ \A i \in EventsOf("sandbox-resource") :
                   /\ Mine[i].a = OrUndefined(params.flowId)
                   /\ Mine[i].b = params.resourceUrl
                   /\ \E j \in ReadsWith("miss") : j < i
            /\ ReadsWith("hit") # {} => EventsOf("sandbox-resource") = {})
    /\ [][HitStep =>
            docSrc' = Srcdoc(ensureCspMeta(events'[Len(events')].b,
                                           DEFAULT_CSP, FALSE))]_vars

\* C7 case: the persistent tier failed or had nothing, and the request
\* went out
C7_Witness ==
    /\ EventsOf("apiGet") # {}
    /\ ReadsWith("miss") # {}
    /\ Cardinality(EventsOf("sandbox-resource")) = 1
    /\ store # EmptyMap

\* C8: a read of the cache returns exactly the html last written under the
\* same namespace and resource identifier: in the process that wrote it,
\* the memory tier answers the read with that html (stated for html that
\* is not the empty string).
C8_ReadReturnsLastWrite ==
    \A k \in DOMAIN written :
        written[k] # <<>> => MapGet(htmlCache, k) = written[k]

\* the session bypasses the cache read
Bypass(p) ==
    /\ Truthy(p.resourceUrl)
    /\ ~IsDirect(p)
    /\ p.noCache \/ Includes(p.resourceUrl, CACHE_BUSTER)

\* C9: with noCache set, or with the legacy marker in the resource
\* identifier, the read reports not found without consulting the memory
\* tier or the persistent tier, whatever was written under the key before;
\* a write in such a session is unaffected: it fills the memory tier and
\* sends the html to the persistent tier.
C9_BypassSkipsReadOnly ==
    /\ [](sess > 0 /\ Bypass(params) =>
            /\ SubSeq(Mine, 1, 3) =
                 << SandboxReady(sess, params),
                    Ev(sess, "read", <<"miss">>, NULL),
                    SandboxResource(sess, params.flowId, params.resourceUrl) >>
            /\ EventsOf("memRead") = {}
            /\ EventsOf("apiGet") = {}
            /\ \A f \in fetches : f.sess # sess)
    /\ [][Bypass(params') /\ sess' = sess + 1 =>
            htmlCache' = htmlCache /\ store' = store]_vars
    /\ [][Bypass(params) /\ srrCount' = srrCount + 1 /\ doc' = doc + 1 =>
            \E r \in ResourceInputs \ {NULL} :
                LET ns == cacheNamespace(params)
                IN  /\ MapGet(htmlCache', Namespaced(ns, r)) = docSrc'.val
                    /\ \E w \in posts' \ posts :
                          /\ w.path = buildCachePath(r, ns)
                          /\ w.body = docSrc'.val]_vars

\* C9 case: a noCache session over a warm memory tier asked the host for
\* the resource, and the host's answer was written to both tiers
C9_Witness ==
    /\ params.noCache
    /\ namespacedKey(params) \in DOMAIN written
    /\ written[namespacedKey(params)] # PriorHtml
    /\ htmlCache = written
    /\ store # PriorStore
    /\ store # EmptyMap
    /\ EventsOf("sandbox-resource") # {}

----------------------------------------------------------------------------
(* Classification of the resource identifier                               *)

ResHttp == <<"h","t","t","p",":","/","/","x">>
ResHttpUpper == <<"H","T","T","P",":","/","/","x">>
ResHttpsSpace == <<" ">> \o ResHttps
ResHttpNoSlash == <<"h","t","t","p",":","x">>
ResHttpNoHost == <<"h","t","t","p",":","/","/">>
ResHttpx == <<"h","t","t","p","x",":","/","/","x">>
ResFtp == <<"f","t","p",":","/","/","x">>
ResNoScheme == <<"/","/","x">>
ResWord == <<"h","t","t","p">>

\* router.query.url, for the classification: well-formed and malformed
\* identifiers of several schemes, the empty string and no url at all
RouteResources ==
    { NULL, <<>>, ResUi, ResBuster, ResHttps, ResHttp, ResHttpUpper,
      ResHttpsSpace, ResHttpNoSlash, ResHttpNoHost, ResHttpx, ResFtp,
      ResNoScheme, ResWord }

RouteInputs ==
    {RouterQuery(f, r, FALSE) : f \in FlowIds, r \in RouteResources}

MountRoute == \E p \in RouteInputs : Mount(p)

\* a session from mount to unmount whose host sends no resource
NextRoute ==
    \/ MountRoute
    \/ LoadEvent
    \/ TimerExpires
    \/ HostMessage
    \/ Unmount

RouteSpec == Init /\ [][NextRoute]_vars

\* the identifiers of RouteResources that are URIs of scheme http or https
HttpIdentifiers ==
    {ResHttps, ResHttp, ResHttpUpper, ResHttpsSpace, ResHttpNoSlash}

\* C10: the resource identifier is classified Direct exactly when it
\* parses as a URI whose scheme is http or https, and Sandboxed for every
\* other scheme and every malformed identifier; the session navigates the
\* iframe straight to the URL if and only if the classification is Direct.
C10_DirectIffHttp ==
    sess > 0 =>
        /\ IsDirect(params) <=> params.resourceUrl \in HttpIdentifiers
        /\ IF IsDirect(params)
           THEN docSrc = [kind |-> "src", val |-> params.resourceUrl]
           ELSE docSrc.kind # "src"

\* C10 case: an http URL written with an upper-case scheme was navigated
\* to and has loaded
C10_Witness ==
    /\ mounted
    /\ params.resourceUrl = ResHttpUpper
    /\ docSrc.kind = "src"
    /\ loaded

----------------------------------------------------------------------------
(* Properties of the Direct path                                           *)

\* C11: in a session whose resource is classified Direct, whatever the host
\* and the widget send, the iframe keeps the URL it was navigated to (no
\* HTML payload, rewritten by the CSP injector or not, replaces it), the
\* memory tier is not written and no request goes to the persistent tier.
C11_DirectSkipsHtmlPath ==
    [][sess > 0 /\ sess' = sess /\ IsDirect(params) =>
          /\ docSrc' = docSrc
          /\ htmlCache' = htmlCache
          /\ posts' \subseteq posts
          /\ fetches' \subseteq fetches]_vars

----------------------------------------------------------------------------
(* The CSP injector on its own                                             *)

HtmlBare == <<"w">>
HtmlHead == <<"<head>", "w">>
HtmlHeader == <<"<header>", "w">>
HtmlTwoCsp ==
    <<"<head>", MetaOpen, "p", "\"", ">", MetaOpen, "q", "\"", ">", "w">>

\* html arguments: empty, without head or html element, with one, with a
\* header element only, with one and with two CSP meta tags
CspHtmlInputs ==
    {<<>>, HtmlBare, HtmlPlain, HtmlHead, HtmlHeader, HtmlWithCsp, HtmlTwoCsp}

\* csp arguments: empty, plain, with characters to escape, the default,
\* and with "$" sequences
CspPolicyInputs ==
    { <<>>, <<"p">>, CspHostile, DEFAULT_CSP, <<"a", "$", "&">>,
      <<"$", "$">>, <<"$", "1">>, <<"$", "'">> }

\* ensureCspMeta(html, csp, overwrite) is called and returns
EnsureCspCall ==
    /\ \E html \in CspHtmlInputs, csp \in CspPolicyInputs, overwrite \in BOOLEAN :
         probe' = [fn |-> "ensureCspMeta", html |-> html, csp |-> csp,
                   overwrite |-> overwrite,
                   result |-> ensureCspMeta(html, csp, overwrite)]
    /\ UNCHANGED <<sessionVars, innerReady, pendingMessages, flushTimeout,
                   timers, docVars, sandboxAttr, widgetVars, cacheVars,
                   srrCount, hostArrived, toInner, events, relayed, handshake>>

NextCsp == EnsureCspCall

CspSpec == Init /\ [][NextCsp]_vars

\* positions of the CSP meta tags of html
CspTags(html) == {i \in 1..Len(html) : html[i] = MetaOpen}

\* sub occurs in s as a contiguous part
Contains(s, sub) ==
    \E i \in 1..(Len(s) - Len(sub) + 1) : SubSeq(s, i, i + Len(sub) - 1) = sub

\* C12: ensureCspMeta has exactly three behaviours (stated for html and
\* policy that are not the empty string): for html without a CSP meta tag
\* the result has exactly one CSP meta tag, whose content is the
\* attribute-escaped policy, whatever overwrite is; for html with a CSP
\* meta tag and overwrite false the result is html; for html with a CSP
\* meta tag and overwrite true that tag alone is replaced by the new tag.
C12_ThreeBehaviours ==
    (probe.fn = "ensureCspMeta" /\ probe.html # <<>> /\ probe.csp # <<>>) =>
        LET html == probe.html
            tag == <<MetaOpen>> \o escapeHtmlAttr(probe.csp) \o <<"\"", ">">>
            old == CspMatch(html)
        IN  IF CspTags(html) = {}
            THEN /\ Cardinality(CspTags(probe.result)) = 1
                 /\ Contains(probe.result, tag)
            ELSE IF ~probe.overwrite THEN probe.result = html
            ELSE probe.result =
                   SubSeq(html, 1, old[1] - 1) \o tag
                   \o SubSeq(html, old[2] + 1, Len(html))

----------------------------------------------------------------------------
(* Properties of sandbox-resource-ready handling                           *)

\* a step that handles a sandbox-resource-ready whose html is a string
ResourceReadyStep == srrCount' = srrCount + 1 /\ doc' = doc + 1

\* C13: when a sandbox-resource-ready with a string html is handled (stated
\* for html that is not the empty string), the html rewritten by the CSP
\* injector, with the csp parameter or the built-in default as policy and
\* overwrite set, is what the iframe is given, what the memory tier holds
\* and what is sent to the persistent tier, both under namespace::resource
\* with the resource of the message or else the resource the session was
\* mounted with; and it contains exactly one CSP meta tag.
C13_ResourceReadyWrite ==
    [][ResourceReadyStep /\ docSrc'.val # <<>> =>
          \E q \in ResourceReadyInputs :
              LET stored == docSrc'.val
                  policy == IF q.csp = NULL THEN DEFAULT_CSP ELSE q.csp
                  r == IF q.resource # NULL THEN q.resource
                       ELSE params.resourceUrl
                  ns == cacheNamespace(params)
              IN  /\ q.html # NULL
                  /\ docSrc'.kind = "srcdoc"
                  /\ stored = ensureCspMeta(q.html, policy, TRUE)
                  /\ Truthy(r) =>
                       /\ MapGet(htmlCache', Namespaced(ns, r)) = stored
                       /\ \E w \in posts' \ posts :
                            /\ w.path = buildCachePath(r, ns)
                            /\ w.body = stored
                  /\ Cardinality(CspTags(stored)) = 1]_vars

----------------------------------------------------------------------------
(* The cache endpoint on its own                                           *)

\* encoded key segments as the client builds them, and a plain one
KeyFlow == encodeCacheKey(Namespaced(<<"f","1">>, ResUi))
KeyPlain == <<"k">>
ApiKeys == {KeyFlow, KeyPlain}

\* the path of a request for an encoded key
ApiPath(k) == CACHE_ENDPOINT_BASE \o <<"/">> \o k

\* a segment decodeURIComponent rejects
KeyUndecodable == <<"%", "z", "z">>

\* request paths: with a key, with a key and a trailing slash, with a
\* segment that cannot be decoded, and without any segment
ApiPaths ==
    {ApiPath(k) : k \in ApiKeys}
        \cup {ApiPath(KeyPlain) \o <<"/">>, ApiPath(KeyUndecodable),
              ApiPath(<<>>), <<"/">>}

ApiMethods == {"GET", "POST", "PUT"}

JsonWithHtml == [text |-> <<"{html}">>, jsonValid |-> TRUE, jsonHtml |-> HtmlBare]
JsonNoHtml == [text |-> <<"{}">>, jsonValid |-> TRUE, jsonHtml |-> NULL]
JsonBroken == [text |-> <<"{">>, jsonValid |-> FALSE, jsonHtml |-> NULL]

\* request contents, the content type with the body: no body, html as
\* text, and as application/json an object with an html string, an object
\* without one, and text that does not parse
ApiContents ==
    {<<FALSE, TextBody(<<>>)>>, <<FALSE, TextBody(HtmlPlain)>>,
     <<TRUE, JsonWithHtml>>, <<TRUE, JsonNoHtml>>, <<TRUE, JsonBroken>>}

\* only a POST is sent with a body
ContentsOf(method) ==
    IF method = "POST" THEN ApiContents ELSE {<<FALSE, TextBody(<<>>)>>}

\* a request reaches handler and is answered
ApiRequest ==
    /\ \E method \in ApiMethods, pathname \in ApiPaths :
       \E content \in ContentsOf(method) :
         LET isJson == content[1]
             body == content[2]
             r == handler(method, pathname, isJson, body, store)
         IN  /\ probe' = [fn |-> "handler", method |-> method,
                          pathname |-> pathname, isJson |-> isJson,
                          body |-> body, status |-> r.status,
                          result |-> r.body,
                          allow |-> IF r.status = 405 THEN r.allow ELSE NULL]
             /\ store' = r.store
    /\ UNCHANGED <<sessionVars, innerReady, pendingMessages, flushTimeout,
                   timers, docVars, sandboxAttr, widgetVars, fetches, posts,
                   htmlCache, written, srrCount, hostArrived, toInner, events,
                   relayed, handshake>>

NextApi == ApiRequest

ApiSpec == Init /\ [][NextApi]_vars

\* what a GET of encoded key k is answered when the store is st
GetOf(st, k) ==
    LET r == handler("GET", ApiPath(k), FALSE, TextBody(<<>>), st)
    IN  <<r.status, r.body>>

\* the request paths that name encoded key k
PathsOfKey(k) == {ApiPath(k), ApiPath(k) \o <<"/">>} \cap ApiPaths

\* the html a POST carries: the html string of a JSON body, or the raw text
PostedHtml(req) ==
    IF req.isJson /\ req.body.jsonValid /\ req.body.jsonHtml # NULL
    THEN req.body.jsonHtml ELSE req.body.text

\* C14: on the cache endpoint a key that was never POSTed is answered 404;
\* after a POST of html under a key is answered 200, every GET of the key
\* is answered 200 with exactly that html until the next POST to the key,
\* whose html then replaces it; a POST to one key leaves the answer for
\* every other key as it was, and so does every request that is not a
\* POST answered 200.
C14_EndpointRoundTrip ==
    /\ [](store = EmptyMap => \A k \in ApiKeys : GetOf(store, k)[1] = 404)
    /\ [][probe' # probe /\ probe'.fn = "handler" =>
            \A k \in ApiKeys :
                /\ IF /\ probe'.method = "POST"
                      /\ probe'.status = 200
                      /\ probe'.pathname \in PathsOfKey(k)
                   THEN GetOf(store', k) = <<200, PostedHtml(probe')>>
                   ELSE GetOf(store', k) = GetOf(store, k)
                /\ (probe'.method = "GET" /\ probe'.pathname \in PathsOfKey(k)) =>
                     /\ <<probe'.status, probe'.result>> = GetOf(store, k)
                     /\ store' = store]_vars

\* C14 case: a key POSTed twice is answered with the later html, while
\* another key still holds what was POSTed to it
C14_Witness ==
    /\ probe.fn = "handler"
    /\ probe.method = "GET"
    /\ probe.pathname = ApiPath(KeyFlow)
    /\ probe.status = 200
    /\ probe.result = HtmlBare
    /\ PriorStore # EmptyMap
    /\ GetOf(PriorStore, KeyFlow) = <<200, PriorHtml>>
    /\ GetOf(store, KeyPlain) = <<200, HtmlPlain>>


\* request paths whose key segment is missing, or is not percent-decodable
KeylessPaths == {ApiPath(<<>>), <<"/">>}
UndecodablePaths == {ApiPath(KeyUndecodable)}

\* C15: on the cache endpoint a request whose encoded key segment is
\* missing or cannot be percent-decoded is answered 400 whatever its
\* method, and a request with a valid key and a method other than GET and
\* POST is answered 405 with Allow: GET, POST; both leave the store as it
\* was.
C15_KeyAndMethodErrors ==
    [][probe' # probe /\ probe'.fn = "handler" =>
         /\ probe'.pathname \in KeylessPaths \cup UndecodablePaths =>
              probe'.status = 400 /\ store' = store
         /\ (/\ probe'.pathname \notin KeylessPaths \cup UndecodablePaths
             /\ probe'.method \notin {"GET", "POST"}) =>
              /\ probe'.status = 405
              /\ probe'.allow = <<"GET, POST">>
              /\ store' = store]_vars

\* C15, the part about the method alone
C15_MethodNotAllowed ==
    [][probe' # probe /\ probe'.fn = "handler" =>
         /\ (/\ probe'.pathname \notin KeylessPaths \cup UndecodablePaths
             /\ probe'.method \notin {"GET", "POST"}) =>
              /\ probe'.status = 405
              /\ probe'.allow = <<"GET, POST">>
              /\ store' = store]_vars


----------------------------------------------------------------------------
(* Readiness, timers and teardown                                          *)

\* a step that assigns an HTML payload as the iframe's document
AssignsHtml == (doc' # doc \/ sess' # sess) /\ docSrc'.kind = "srcdoc"

\* C16: whenever an HTML payload is assigned as the iframe's document (on
\* sandbox-resource-ready, on a memory hit at mount, on a persistent hit
\* that resolves later) innerReady is false right after the assignment.
C16_AssignResetsReady ==
    [][AssignsHtml => ~innerReady']_vars


\* C17: a host message is posted to the widget at most once.  A flush
\* leaves the queue empty, so while the session is READY nothing is
\* queued, and a client-ready or a timer expiry that finds the session
\* READY posts nothing: only the arrival of a host message adds a post.
C17_PostedAtMostOnce ==
    /\ [](/\ \A i, j \in 1..Len(toInner) :
                toInner[i].msg = toInner[j].msg => i = j
          /\ innerReady => pendingMessages = <<>>)
    /\ [][innerReady /\ sess' = sess /\ hostArrived' = hostArrived =>
            toInner' = toInner]_vars

\* C17 case: client-ready flushed the queue, the document's load event
\* came afterwards and its timer expired with the session READY (the
\* handle is still set, so no client-ready cleared it), and a message that
\* arrived later was posted directly
C17_Witness ==
    /\ mounted
    /\ innerReady
    /\ readySent
    /\ innerQueue = <<>>
    /\ loaded
    /\ flushTimeout # {}
    /\ timers = {}
    /\ pendingMessages = <<>>
    /\ Len(toInner) = 2
    /\ toInner[1].via = "flush"
    /\ toInner[2].via = "direct"


\* the step that processes a client-ready of the widget
ClientReadyStep ==
    /\ mounted
    /\ innerQueue # <<>>
    /\ Head(innerQueue).data = CLIENT_READY
    /\ innerQueue' = Tail(innerQueue)
    /\ mounted'

\* C18: right after a client-ready is processed no fallback timer of the
\* session is pending, and at any time at most one fallback timer of the
\* session is pending, however many times the load event has fired.
C18_SingleTimer ==
    /\ [](Cardinality({t \in timers : t.sess = sess}) <= 1)
    /\ [][ClientReadyStep => {t \in timers' : t.sess = sess} = {}]_vars

\* C18, the first half alone
C18_ClientReadyClearsTimers ==
    [][ClientReadyStep => {t \in timers' : t.sess = sess} = {}]_vars


\* a fallback timer's callback runs
TimerRuns == timers' # timers /\ timers' \subseteq timers /\ flushTimeout' = flushTimeout

\* C19: unmount cancels the pending fallback timer of the session: once
\* the session is unmounted none of its timers is pending, so no timer
\* started before unmount runs its callback after unmount.
C19_UnmountCancelsTimer ==
    /\ [](sess > 0 /\ ~mounted => {t \in timers : t.sess = sess} = {})
    /\ [][~mounted /\ sess' = sess => ~TimerRuns]_vars


\* C19, the second half alone
C19_NoCallbackAfterUnmount ==
    [][~mounted /\ sess' = sess => ~TimerRuns]_vars


\* the messages posted to the host among the recorded events
HostPosts(evs) ==
    SelectSeq(evs, LAMBDA e : e.ev \in {"sandbox-ready", "sandbox-resource"})

\* C20: after unmount the session changes nothing and emits nothing: no
\* post to the host or to the widget, no document assigned to the iframe,
\* no write to the memory tier and no POST to the persistent tier, also
\* when a cache read or a fallback timer was in flight at unmount.
C20_QuietAfterUnmount ==
    [][sess > 0 /\ ~mounted /\ sess' = sess =>
         /\ HostPosts(events') = HostPosts(events)
         /\ relayed' = relayed
         /\ toInner' = toInner
         /\ docSrc' = docSrc
         /\ doc' = doc
         /\ htmlCache' = htmlCache
         /\ posts' \subseteq posts
         /\ innerReady' = innerReady
         /\ pendingMessages' = pendingMessages]_vars


----------------------------------------------------------------------------
(* The two cache tiers                                                     *)

\* a session with values p reads the cache at mount
ReadsCache(p) == Truthy(p.resourceUrl) /\ ~IsDirect(p) /\ ~Bypass(p)

\* html carries a complete CSP meta tag
HasCspTag(html) ==
    \E i \in CspTags(html) : \E j \in (i + 1)..Len(html) : html[j] = ">"

\* a mount whose cache read finds html in the memory tier
MemoryHitMount ==
    /\ sess' = sess + 1
    /\ ReadsCache(params')
    /\ Truthy(MapGet(htmlCache, namespacedKey(params')))

\* C21: the cache read looks at the memory tier first.  On a memory hit no
\* request to the persistent tier is issued and neither tier changes, and
\* the iframe is given the cached html as it is when that html already
\* carries a CSP meta tag; a GET of the persistent tier is only ever issued
\* after the memory tier was looked at.
C21_MemoryFirst ==
    /\ [][MemoryHitMount =>
            LET cached == MapGet(htmlCache, namespacedKey(params'))
                mine == SelectSeq(events', LAMBDA e : e.sess = sess')
            IN  /\ fetches' = fetches
                /\ \A i \in 1..Len(mine) : mine[i].ev # "apiGet"
                /\ \E i \in 1..Len(mine) : mine[i].ev = "memRead"
                /\ htmlCache' = htmlCache
                /\ store' = store
                /\ posts' = posts
                /\ HasCspTag(cached) => docSrc' = Srcdoc(cached)]_vars
    /\ [](\A i \in EventsOf("apiGet") : \E j \in EventsOf("memRead") : j < i)

\* C21 case: a session mounted over a warm memory tier shows the cached
\* html, which carries a CSP meta tag, and no GET was issued
C21_Witness ==
    /\ mounted
    /\ ReadsCache(params)
    /\ srrCount = 0
    /\ HasCspTag(MapGet(htmlCache, namespacedKey(params)))
    /\ docSrc = Srcdoc(MapGet(htmlCache, namespacedKey(params)))
    /\ EventsOf("memRead") # {}
    /\ EventsOf("apiGet") = {}
    /\ ReadsWith("hit") # {}


\* a mount whose cache read finds nothing in the memory tier
MemoryMissMount ==
    /\ sess' = sess + 1
    /\ ReadsCache(params')
    /\ ~Truthy(MapGet(htmlCache, namespacedKey(params')))

\* C22: on a memory miss the read issues one GET of the persistent tier,
\* for the path of the session's namespace and resource.  When the answer
\* is 2xx the memory tier is filled under the same key with the returned
\* html and the read reports a hit; when the GET fails in transport or is
\* answered otherwise the read reports not found, the memory tier stays as
\* it was and sandbox-resource is posted.  A POST to the persistent tier
\* that ends, served or failed, changes nothing of the session, and a POST
\* is only ever issued by a sandbox-resource-ready message, never again.
C22_PersistentPath ==
    /\ [][MemoryMissMount =>
            \E f \in fetches' \ fetches :
                /\ fetches' = fetches \cup {f}
                /\ f.sess = sess'
                /\ f.phase = "sent"
                /\ f.key = namespacedKey(params')
                /\ f.path = buildCachePath(params'.resourceUrl,
                                           cacheNamespace(params'))]_vars
    /\ [][\A f \in fetches :
            (f.phase = "resp" /\ fetches' = fetches \ {f}) =>
                IF f.ok
                THEN /\ htmlCache' = MapSet(htmlCache, f.key, f.body)
                     /\ events' = events \o
                          << Ev(f.sess, "read", <<"hit">>, f.body) >>
                ELSE /\ htmlCache' = htmlCache
                     /\ events' = events \o
                          << Ev(f.sess, "read", <<"miss">>, NULL),
                             SandboxResource(f.sess, f.flowId, f.resourceUrl) >>]_vars
    /\ [][posts' # posts /\ posts' \subseteq posts =>
            UNCHANGED <<sessionVars, innerReady, pendingMessages, flushTimeout,
                        timers, docVars, sandboxAttr, widgetVars, fetches,
                        htmlCache, events, toInner, relayed, srrCount>>]_vars
    /\ [][~(posts' \subseteq posts) => srrCount' = srrCount + 1]_vars

\* C22 case: the memory tier was empty, the GET was answered with the
\* stored html, and the memory tier now holds it under the session's key
C22_Witness ==
    /\ mounted
    /\ ReadsCache(params)
    /\ srrCount = 0
    /\ EventsOf("apiGet") # {}
    /\ ReadsWith("hit") # {}
    /\ MapGet(htmlCache, namespacedKey(params)) = PriorHtml
    /\ docSrc = Srcdoc(PriorHtml)


\* a POST request for one of the keys
KeyedPost(req) ==
    /\ req.fn = "handler"
    /\ req.method = "POST"
    /\ \E k \in ApiKeys : req.pathname \in PathsOfKey(k)

\* a body declared as JSON that does not parse, or has no html string
JsonWithoutHtml(req) ==
    req.isJson /\ (~req.body.jsonValid \/ req.body.jsonHtml = NULL)

\* C23: a cache-write POST whose body is declared as JSON and does not
\* parse, or parses without an html string, is served from the raw body
\* text: the text is stored as it is and the answer is 200; a POST with no
\* usable body is answered 400 "Missing HTML body" and the store stays as
\* it was; no POST ends in an unhandled failure.
C23_PostBodyFallback ==
    [][probe' # probe /\ KeyedPost(probe') =>
         /\ probe'.status # 500
         /\ (JsonWithoutHtml(probe') /\ probe'.body.text # <<>>) =>
              /\ probe'.status = 200
              /\ \A k \in ApiKeys :
                    probe'.pathname \in PathsOfKey(k) =>
                        GetOf(store', k) = <<200, probe'.body.text>>
         /\ (probe'.body.text = <<>> /\ (~probe'.isJson \/ JsonWithoutHtml(probe'))) =>
              /\ probe'.status = 400
              /\ probe'.result = <<"Missing HTML body">>
              /\ store' = store]_vars

\* C23, the part about a missing body alone
C23_MissingBody ==
    [][probe' # probe /\ KeyedPost(probe') =>
         /\ (probe'.body.text = <<>> /\ ~probe'.isJson) =>
              /\ probe'.status = 400
              /\ probe'.result = <<"Missing HTML body">>
              /\ store' = store]_vars


----------------------------------------------------------------------------
(* The cache on its own: writes and reads under namespace and resource     *)

\* namespaces (flow identifiers) and resource identifiers of callers; both
\* are free text, so the separator may occur in them
NsF == <<"f">>
NsFG == <<"f", ":", ":", "g">>
NamespaceInputs == {NsF, NsFG}
ResGUi == <<"g", ":", ":">> \o ResUi
CacheResources == {ResUi, ResGUi}
CachePairs == NamespaceInputs \X CacheResources

\* html written by the sessions
CacheHtmls == {ensureCspMeta(HtmlPlain, DEFAULT_CSP, TRUE),
               ensureCspMeta(HtmlWithCsp, <<"p">>, TRUE)}

\* the write of the sandbox-resource-ready branch for namespace ns, resource
\* r and rewritten html: setCachedHtml at once, the POST in flight
CacheWrite ==
    /\ Cardinality(posts) < MaxWritesInFlight
    /\ \E pair \in CachePairs, html \in CacheHtmls :
         LET ns == pair[1]
             r == pair[2]
         IN  /\ htmlCache' = MapSet(htmlCache, Namespaced(ns, r), html)
             /\ written' = MapSet(written, Namespaced(ns, r), html)
             /\ posts' = posts \cup
                  {[sess |-> sess, n |-> 0, path |-> buildCachePath(r, ns),
                    body |-> html, ns |-> ns, r |-> r]}
    /\ UNCHANGED probe
    /\ UNCHANGED <<sessionVars, innerReady, pendingMessages, flushTimeout,
                   timers, docVars, sandboxAttr, widgetVars, fetches, store,
                   srrCount, hostArrived, toInner, events, relayed, handshake>>

NextCache ==
    \/ CacheWrite
    \/ ApiPostServed
    \/ ApiPostFails

CacheSpec == Init /\ [][NextCache]_vars

\* what a read under (ns, r) finds in the memory tier
MemoryRead(cache, ns, r) == MapGet(cache, Namespaced(ns, r))

\* what a read under (ns, r) is answered by the persistent tier
PersistentRead(st, ns, r) ==
    LET res == handler("GET", buildCachePath(r, ns), FALSE, TextBody(<<>>), st)
    IN  <<res.status, res.body>>

\* C24: the namespace partitions the cache.  A write under (ns1, r1) leaves
\* the result of a read under every other pair (ns2, r2) as it was, in the
\* memory tier when the write is made and in the persistent tier when its
\* POST is served.
C24_NamespacePartition ==
    /\ [][\A q \in posts' \ posts :
            \A other \in CachePairs \ {<<q.ns, q.r>>} :
                MemoryRead(htmlCache', other[1], other[2]) =
                    MemoryRead(htmlCache, other[1], other[2])]_vars
    /\ [][\A q \in posts \ posts' :
            \A other \in CachePairs \ {<<q.ns, q.r>>} :
                PersistentRead(store', other[1], other[2]) =
                    PersistentRead(store, other[1], other[2])]_vars


----------------------------------------------------------------------------
(* CSP at the moment of assignment                                         *)

\* position i of html lies inside an HTML comment
InComment(html, i) ==
    \E j \in 1..(i - 1) :
        html[j] = "<!--" /\ \A k \in (j + 1)..(i - 1) : html[k] # "-->"

\* position i of html lies in the body: a <header> element was opened
InBody(html, i) == \E j \in 1..(i - 1) : html[j] = "<header>"

\* the CSP meta tags of html that are elements of its head
HeadCspTags(html) ==
    {i \in CspTags(html) : ~InComment(html, i) /\ ~InBody(html, i)}

\* C25: every HTML payload assigned as the iframe's document, from a
\* sandbox-resource-ready message, from the memory tier or from the
\* persistent tier, contains a Content-Security-Policy meta tag when it is
\* assigned, so that no markup is rendered without one: a meta element of
\* the document's head, not text inside a comment or an element of the
\* body (stated for payloads other than the empty string).
C25_AssignedHtmlHasCsp ==
    [][AssignsHtml /\ docSrc'.val # <<>> => HeadCspTags(docSrc'.val) # {}]_vars

\* C25 read as a statement about text: every assigned payload other than
\* the empty string contains the text of a CSP meta tag somewhere
C25_AssignedHtmlHasCspText ==
    [][AssignsHtml /\ docSrc'.val # <<>> => HasCspTag(docSrc'.val)]_vars

====
